---- MODULE Spec2Model ----
(***************************************************************************)
(* Model of the agent-commerce trade lifecycle: the EscrowManager          *)
(* (escrow.ts) with its file-backed trade store, and the escrow part of    *)
(* the ClawToken contract (contracts/ClawToken.sol) that it drives.        *)
(*                                                                         *)
(* Every await of the asynchronous lifecycle methods is a point where      *)
(* other requests may run, so each method is cut into one action per       *)
(* synchronous segment: validation, approval, submission of the            *)
(* transaction, its confirmation (tx.wait()), and the store write.         *)
(*                                                                         *)
(* The WalletManager (wallet.ts) and the MarketplaceRegistry               *)
(* (marketplace.ts) keep a file each and are modelled with their own       *)
(* specifications, as are transactions that wallets send to ClawToken      *)
(* without the EscrowManager.                                              *)
(***************************************************************************)
EXTENDS Integers, Sequences, FiniteSets, TLC

\* ---------------------------------------------------------------- bounds
MaxClock   == 1      \* last value of the clock
MaxTx      == 3      \* money-moving transactions ever confirmed
WeiPerClaw == 2      \* smallest units per CLAW (10^18 on chain, scaled down)
MaxTrades  == 2      \* records in the store when generated ids may repeat
MaxListings == 2     \* listings in marketplace.json

Procs    == {1, 2}   \* callers, each with at most one call in flight
TradeIds == {1}      \* ids that initiateTrade hands out, in this order
Amounts  == {0, 1}   \* trade amounts a request may carry, in CLAW
Solo     == {1}      \* the caller of the runs with one call at a time
RandomIds == {1, 2}  \* values the random part of a generated id may take
LedgerIds == {1, 2}  \* bytes32 trade ids of transactions sent by wallets directly
PairIds  == Procs    \* ids handed out in the runs with one trade per caller

\* ------------------------------------------------------ program constants
\* escrowTimeout = 72 hours; the clock of the model counts in that unit.
EscrowTimeout == 1

\* Ledger accounts.  Owner deployed the contract (Ownable(msg.sender)).
Zero     == "0x0"
Contract == "contract"
Owner    == "owner"
Buyer    == "buyer"
Seller   == "seller"
Accounts == {Buyer, Owner, Seller, Contract}
Signers  == {Buyer, Owner}

VARIABLES
    trades,      \* content of trades.json: a sequence of Trade records
    call,        \* per caller: the lifecycle call in flight, or how the
                 \* last one ended
    clock,       \* Date.now() and block.timestamp
    escrows,     \* ClawToken.escrows: tradeHash -> Escrow
    balanceOf,   \* ERC-20 balances
    allowance,   \* ERC-20 allowances: allowance[owner][spender]
    txCount,     \* money-moving transactions confirmed so far
    request,     \* body of the last /commerce/trade/initiate request
    receipt,     \* the last transaction a wallet sent to ClawToken directly
    reply,       \* what the last synchronous query or registry call returned
    walletJson,  \* content of wallet.json (WalletManager)
    marketplaceJson  \* content of marketplace.json (MarketplaceRegistry)

vars == <<trades, call, clock, escrows, balanceOf, allowance, txCount, request,
          receipt, reply, walletJson, marketplaceJson>>
ledger == <<escrows, balanceOf, allowance, txCount>>
\* What the EscrowManager never touches.
outside == <<receipt, reply, walletJson, marketplaceJson>>
others == <<request, outside>>

\* ------------------------------------------------------------ Trade type
TradeState == {"pending", "locked", "delivered", "released", "refunded", "disputed"}

NoHashes == [k \in {} |-> 0]

\* {...a, ...b} of JavaScript: the keys of b override those of a.
Spread(a, b) == [k \in (DOMAIN a) \cup (DOMAIN b) |-> IF k \in DOMAIN b THEN b[k] ELSE a[k]]

\* ethers.parseUnits(amount, 18): CLAW to smallest units.
parseUnits(amount) == amount * WeiPerClaw

\* ethers.keccak256 over `${tradeId}:${buyer}:${seller}:${now}`: injective.
keccak256(tradeId, buyerAddress, sellerAddress, now) ==
    <<tradeId, buyerAddress, sellerAddress, now>>

Null == [id |-> 0]

\* ----------------------------------------------------------------- store
\* trades.json after a writeFileSync that did not finish: the file is
\* truncated or holds a prefix of the JSON text.
Torn == <<[torn |-> TRUE]>>

\* JSON.parse throws on a torn file and the catch returns [].
loadTrades == IF trades = Torn THEN <<>> ELSE trades

RECURSIVE findIndexFrom(_, _, _)
findIndexFrom(trs, tradeId, i) ==
    IF i > Len(trs) THEN 0
    ELSE IF trs[i].id = tradeId THEN i
    ELSE findIndexFrom(trs, tradeId, i + 1)

\* Array.prototype.findIndex, 1-based; 0 stands for -1.
findIndex(trs, tradeId) == findIndexFrom(trs, tradeId, 1)

getTrade(tradeId) ==
    LET idx == findIndex(loadTrades, tradeId)
    IN  IF idx = 0 THEN Null ELSE loadTrades[idx]

\* Mutant of patched: the write stamps createdAt as well as updatedAt.
patched_stampCreated(old, patch, now) ==
    Spread(Spread(old, patch),
           [txHashes |-> Spread(old.txHashes,
                                IF "txHashes" \in DOMAIN patch
                                THEN patch.txHashes ELSE NoHashes),
            createdAt |-> now,
            updatedAt |-> now])

\* Mutant of getTradesByAgent: only the buyer side is compared.
getTradesByAgent_buyerOnly(agentId) ==
    SelectSeq(loadTrades, LAMBDA t : t.buyerAgentId = agentId)

getTradesByAgent(agentId) ==
    SelectSeq(loadTrades,
              LAMBDA t : t.buyerAgentId = agentId \/ t.sellerAgentId = agentId)

\* Mutant of getActiveTrades: every trade that is not released is listed.
getActiveTrades_notReleased ==
    SelectSeq(loadTrades, LAMBDA t : t.state # "released")

getActiveTrades ==
    SelectSeq(loadTrades,
              LAMBDA t : \/ t.state = "pending"
                         \/ t.state = "locked"
                         \/ t.state = "delivered")

\* The record updateTrade writes at index idx.
patched(old, patch, now) ==
    Spread(Spread(old, patch),
           [txHashes |-> Spread(old.txHashes,
                                IF "txHashes" \in DOMAIN patch
                                THEN patch.txHashes ELSE NoHashes),
            updatedAt |-> now])

\* Mutant of updateTrade: the patch is applied to every record of the file.
updateTrade_everyRecord(tradeId, patch) ==
    LET trs == loadTrades
    IN  [i \in DOMAIN trs |-> patched(trs[i], patch, clock)]

\* updateTrade(tradeId, patch): the new content of the store.  The callers
\* below only reach it for a trade they have read, and no record is removed.
updateTrade(tradeId, patch) ==
    LET trs == loadTrades
        idx == findIndex(trs, tradeId)
    IN  [trs EXCEPT ![idx] = patched(trs[idx], patch, clock)]

\* ---------------------------------------------------------------- calls
\* A caller that is not inside a call keeps the operation, the trade id and
\* the outcome of its last call ("none" before the first one).
Idle == [pc |-> "idle", op |-> "none", id |-> 0, signer |-> "none",
         trade |-> Null, hash |-> 0, result |-> "none"]

\* The call of caller p ends: it returns (kind = "ok") or throws.
Finish(p, op, tradeId, kind) ==
    call' = [call EXCEPT ![p] = [Idle EXCEPT !.op = op, !.id = tradeId,
                                             !.result = kind]]

\* The call of caller p reaches its first await.
Await(p, op, tradeId, signer, trade, pc) ==
    call' = [call EXCEPT ![p] = [Idle EXCEPT !.pc = pc, !.op = op,
                                             !.id = tradeId, !.signer = signer,
                                             !.trade = trade]]

\* Caller p is inside operation op, suspended at pc.
At(p, op, pc) == call[p].pc = pc /\ call[p].op = op

Goto(p, pc) == call' = [call EXCEPT ![p].pc = pc]

Throw(p, kind) == Finish(p, call[p].op, call[p].id, kind)

\* ---------------------------------------------------------------- ledger
NoEscrow == [buyer |-> Zero, seller |-> Zero, amount |-> 0,
             createdAt |-> 0, expiresAt |-> 0, state |-> "NONE"]

EscrowOf(h) == IF h \in DOMAIN escrows THEN escrows[h] ELSE NoEscrow

\* ERC20.approve by msg.sender = owner (OpenZeppelin): spender must not be 0.
approveReverts(owner, spender) == spender = Zero \/ owner = Zero

approved(owner, spender, value) ==
    [allowance EXCEPT ![owner][spender] = value]

\* ERC20._transfer(from, to, value).
transferReverts(from, to, value) ==
    from = Zero \/ to = Zero \/ balanceOf[from] < value

transferred(from, to, value) ==
    IF from = to THEN balanceOf
    ELSE [balanceOf EXCEPT ![from] = @ - value, ![to] = @ + value]

\* ERC20.transferFrom(from, to, value) called by spender: it spends the
\* allowance that `from` gave to the caller.
transferFromReverts(spender, from, to, value) ==
    allowance[from][spender] < value \/ transferReverts(from, to, value)

\* Mutant of createEscrowReverts: an existing escrow is not refused.
createEscrowReverts_noExistsCheck(msgSender, seller, amount, tradeId) ==
    \/ seller = Zero
    \/ ~(amount > 0)
    \/ transferFromReverts(msgSender, msgSender, Contract, amount)

\* createEscrow(seller, amount, tradeId) sent by msgSender.  The token
\* transfer is an internal call of transferFrom, so its caller (the spender)
\* is msgSender itself.
createEscrowReverts(msgSender, seller, amount, tradeId) ==
    \/ EscrowOf(tradeId).state # "NONE"
    \/ seller = Zero
    \/ ~(amount > 0)
    \/ transferFromReverts(msgSender, msgSender, Contract, amount)

\* Mutant of createEscrow: the escrow records the seller as its buyer.
createEscrow_sellerAsBuyer(msgSender, seller, amount, tradeId) ==
    /\ allowance' = approved(msgSender, msgSender,
                             allowance[msgSender][msgSender] - amount)
    /\ balanceOf' = transferred(msgSender, Contract, amount)
    /\ escrows' = [h \in (DOMAIN escrows) \cup {tradeId} |->
                     IF h = tradeId
                     THEN [buyer |-> seller, seller |-> seller,
                           amount |-> amount, createdAt |-> clock,
                           expiresAt |-> clock + EscrowTimeout,
                           state |-> "LOCKED"]
                     ELSE escrows[h]]

createEscrow(msgSender, seller, amount, tradeId) ==
    /\ allowance' = approved(msgSender, msgSender,
                             allowance[msgSender][msgSender] - amount)
    /\ balanceOf' = transferred(msgSender, Contract, amount)
    /\ escrows' = [h \in (DOMAIN escrows) \cup {tradeId} |->
                     IF h = tradeId
                     THEN [buyer |-> msgSender, seller |-> seller,
                           amount |-> amount, createdAt |-> clock,
                           expiresAt |-> clock + EscrowTimeout,
                           state |-> "LOCKED"]
                     ELSE escrows[h]]

\* Mutant of releaseEscrowReverts: any account may release.
releaseEscrowReverts_anyCaller(msgSender, tradeId) ==
    LET esc == EscrowOf(tradeId)
    IN  \/ esc.state # "LOCKED"
        \/ transferReverts(Contract, esc.seller, esc.amount)

releaseEscrowReverts(msgSender, tradeId) ==
    LET esc == EscrowOf(tradeId)
    IN  \/ esc.state # "LOCKED"
        \/ msgSender # esc.buyer
        \/ transferReverts(Contract, esc.seller, esc.amount)

\* Mutant of releaseEscrow: the seller is paid with newly minted tokens and
\* the escrowed ones stay with the contract.
releaseEscrow_mints(msgSender, tradeId) ==
    LET esc == EscrowOf(tradeId)
    IN  /\ escrows' = [escrows EXCEPT ![tradeId].state = "RELEASED"]
        /\ balanceOf' = [balanceOf EXCEPT ![esc.seller] = @ + esc.amount]
        /\ UNCHANGED allowance

releaseEscrow(msgSender, tradeId) ==
    LET esc == EscrowOf(tradeId)
    IN  /\ escrows' = [escrows EXCEPT ![tradeId].state = "RELEASED"]
        /\ balanceOf' = transferred(Contract, esc.seller, esc.amount)
        /\ UNCHANGED allowance

\* Mutant of refundEscrowReverts: the state of the escrow is not required
\* to be LOCKED.
refundEscrowReverts_noStateCheck(msgSender, tradeId) ==
    LET esc == EscrowOf(tradeId)
    IN  \/ esc.state = "NONE"
        \/ ~(\/ (msgSender = esc.buyer /\ clock >= esc.expiresAt)
             \/ msgSender = Owner)
        \/ transferReverts(Contract, esc.buyer, esc.amount)

\* Mutant of refundEscrowReverts: the buyer need not wait for the expiry.
refundEscrowReverts_noExpiry(msgSender, tradeId) ==
    LET esc == EscrowOf(tradeId)
    IN  \/ esc.state # "LOCKED"
        \/ ~(msgSender = esc.buyer \/ msgSender = Owner)
        \/ transferReverts(Contract, esc.buyer, esc.amount)

refundEscrowReverts(msgSender, tradeId) ==
    LET esc == EscrowOf(tradeId)
    IN  \/ esc.state # "LOCKED"
        \/ ~(\/ (msgSender = esc.buyer /\ clock >= esc.expiresAt)
             \/ msgSender = Owner)
        \/ transferReverts(Contract, esc.buyer, esc.amount)

refundEscrow(msgSender, tradeId) ==
    LET esc == EscrowOf(tradeId)
    IN  /\ escrows' = [escrows EXCEPT ![tradeId].state = "REFUNDED"]
        /\ balanceOf' = transferred(Contract, esc.buyer, esc.amount)
        /\ UNCHANGED allowance

\* Every signer starts with the tokens for the largest trade.
InitialFunds == parseUnits(CHOOSE a \in Amounts : \A b \in Amounts : b <= a)

Init ==
    /\ trades = <<>>
    /\ call = [p \in Procs |-> Idle]
    /\ clock = 0
    /\ escrows = [h \in {} |-> NoEscrow]
    /\ balanceOf = [a \in Accounts |->
                      IF a \in Signers THEN InitialFunds ELSE 0]
    /\ allowance = [a \in Accounts |-> [s \in Accounts |-> 0]]
    /\ txCount = 0
    /\ request = Null
    /\ receipt = Null
    /\ reply = Null
    /\ walletJson = Null
    /\ marketplaceJson = <<>>

\* ------------------------------------------------------------ environment
Tick ==
    /\ clock < MaxClock
    /\ clock' = clock + 1
    /\ UNCHANGED <<trades, call, ledger, others>>

\* A token holder sets an allowance with any wallet: approve(spender, value)
\* of the ERC-20 interface, outside the EscrowManager.
HolderApprove(owner, spender, value) ==
    /\ ~approveReverts(owner, spender)
    /\ allowance[owner][spender] # value
    /\ allowance' = approved(owner, spender, value)
    /\ UNCHANGED <<trades, call, clock, escrows, balanceOf, txCount, others>>

\* -------------------------------------------------------- EscrowManager
\* Mutant of initiateTradeAs: the amount is stored in smallest units.
initiateTradeAs_weiAmount(tradeId, params) ==
    /\ LET now == clock
           trade == [id |-> tradeId,
                     tradeHash |-> keccak256(tradeId, params.buyerAddress,
                                             params.sellerAddress, now),
                     listingId |-> params.listingId,
                     buyerAgentId |-> params.buyerAgentId,
                     sellerAgentId |-> params.sellerAgentId,
                     buyerAddress |-> params.buyerAddress,
                     sellerAddress |-> params.sellerAddress,
                     amount |-> parseUnits(params.amount),
                     state |-> "pending",
                     txHashes |-> NoHashes,
                     createdAt |-> now,
                     updatedAt |-> now]
       IN  trades' = Append(loadTrades, trade)
    /\ request' = params
    /\ UNCHANGED <<call, clock, ledger, outside>>

\* initiateTrade(params) with tradeId standing for the generated id
\* `trade_${Date.now()}_${Math.random()}`.
initiateTradeAs(tradeId, params) ==
    /\ LET now == clock
           trade == [id |-> tradeId,
                     tradeHash |-> keccak256(tradeId, params.buyerAddress,
                                             params.sellerAddress, now),
                     listingId |-> params.listingId,
                     buyerAgentId |-> params.buyerAgentId,
                     sellerAgentId |-> params.sellerAgentId,
                     buyerAddress |-> params.buyerAddress,
                     sellerAddress |-> params.sellerAddress,
                     amount |-> params.amount,
                     state |-> "pending",
                     txHashes |-> NoHashes,
                     createdAt |-> now,
                     updatedAt |-> now]
       IN  trades' = Append(loadTrades, trade)
    /\ request' = params
    /\ UNCHANGED <<call, clock, ledger, outside>>

\* The generated ids differ from each other: the store holds the ids
\* 1..Len, and the next trade gets the next id of TradeIds.
initiateTrade(params) ==
    /\ Len(loadTrades) < Cardinality(TradeIds)
    /\ initiateTradeAs(Len(loadTrades) + 1, params)

InitiateParams ==
    [listingId : {"svc_1"}, buyerAgentId : {"B"}, sellerAgentId : {"S"},
     buyerAddress : {Buyer}, sellerAddress : {Seller}, amount : Amounts]

\* The transaction passed the node's gas estimation and is in the mempool.
Sent(p) ==
    /\ Goto(p, "wait")
    /\ UNCHANGED <<ledger, others>>

\* tx.wait() returns the receipt of the mined transaction; receipt.hash is
\* unique to it.  Hashes are numbered in the order of confirmation.
Confirmed(p) ==
    /\ txCount < MaxTx
    /\ txCount' = txCount + 1
    /\ call' = [call EXCEPT ![p].pc = "commit", ![p].hash = txCount + 1]

\* tx.wait() rejects although the transaction is mined (the connection to
\* the node fails while the receipt is awaited): the caller gets a network
\* error and cannot tell whether the ledger applied the transaction.
Lost(p) ==
    /\ txCount < MaxTx
    /\ txCount' = txCount + 1
    /\ Throw(p, "ConfirmationLost")

\* Mutant of lockTokens: the state check is missing.
lockTokens_noStateCheck(p, tradeId, signer) ==
    /\ call[p].pc = "idle"
    /\ LET trade == getTrade(tradeId)
       IN  IF trade = Null THEN Finish(p, "lock", tradeId, "NotFound")
           ELSE Await(p, "lock", tradeId, signer, trade, "approve")
    /\ UNCHANGED <<trades, clock, ledger, others>>

\* ---- lockTokens: up to the first await
lockTokens(p, tradeId, signer) ==
    /\ call[p].pc = "idle"
    /\ LET trade == getTrade(tradeId)
       IN  IF trade = Null THEN Finish(p, "lock", tradeId, "NotFound")
           ELSE IF trade.state # "pending"
                THEN Finish(p, "lock", tradeId, "InvalidState")
           ELSE Await(p, "lock", tradeId, signer, trade, "approve")
    /\ UNCHANGED <<trades, clock, ledger, others>>

\* await contract.approve(contractAddress, amountWei); await approveTx.wait()
lockTokens_approve(p) ==
    /\ At(p, "lock", "approve")
    /\ LET amountWei == parseUnits(call[p].trade.amount)
       IN  \/ /\ ~approveReverts(call[p].signer, Contract)
              /\ allowance' = approved(call[p].signer, Contract, amountWei)
              /\ Goto(p, "submit")
           \/ /\ Throw(p, "LedgerUnavailable")
              /\ UNCHANGED allowance
    /\ UNCHANGED <<trades, clock, escrows, balanceOf, txCount, others>>

\* Mutant of lockTokens_createEscrow: the record is written as locked when
\* the transaction is submitted, before its confirmation.
lockTokens_createEscrow_writeFirst(p) ==
    /\ At(p, "lock", "submit")
    /\ LET trade == call[p].trade
           amountWei == parseUnits(trade.amount)
       IN  \/ IF createEscrowReverts(call[p].signer, trade.sellerAddress,
                                     amountWei, trade.tradeHash)
              THEN Throw(p, "LedgerRejected") /\ UNCHANGED <<ledger, trades>>
              ELSE /\ Sent(p)
                   /\ trades' = updateTrade(call[p].id, [state |-> "locked"])
           \/ Throw(p, "LedgerUnavailable") /\ UNCHANGED <<ledger, trades>>
    /\ UNCHANGED <<clock, others>>

\* await contract.createEscrow(sellerAddress, amountWei, tradeHash)
lockTokens_createEscrow(p) ==
    /\ At(p, "lock", "submit")
    /\ LET trade == call[p].trade
           amountWei == parseUnits(trade.amount)
       IN  \/ IF createEscrowReverts(call[p].signer, trade.sellerAddress,
                                     amountWei, trade.tradeHash)
              THEN Throw(p, "LedgerRejected") /\ UNCHANGED ledger
              ELSE Sent(p)
           \/ Throw(p, "LedgerUnavailable") /\ UNCHANGED ledger
    /\ UNCHANGED <<trades, clock, others>>

\* await tx.wait()
lockTokens_wait(p) ==
    /\ At(p, "lock", "wait")
    /\ LET trade == call[p].trade
           amountWei == parseUnits(trade.amount)
       IN  IF createEscrowReverts(call[p].signer, trade.sellerAddress,
                                  amountWei, trade.tradeHash)
           THEN Throw(p, "LedgerRejected") /\ UNCHANGED ledger
           ELSE /\ createEscrow(call[p].signer, trade.sellerAddress,
                                amountWei, trade.tradeHash)
                /\ (Confirmed(p) \/ Lost(p))
    /\ UNCHANGED <<trades, clock, others>>

\* Mutant of lockTokens_commit: the write of the state leaves out the
\* confirmation reference.
lockTokens_commit_stateOnly(p) ==
    /\ At(p, "lock", "commit")
    /\ trades' = updateTrade(call[p].id, [state |-> "locked"])
    /\ Throw(p, "ok")
    /\ UNCHANGED <<clock, ledger, others>>

\* return this.updateTrade(tradeId, {state: "locked", txHashes: ...})
lockTokens_commit(p) ==
    /\ At(p, "lock", "commit")
    /\ trades' = updateTrade(call[p].id,
                    [state |-> "locked",
                     txHashes |-> Spread(call[p].trade.txHashes,
                                         [escrowCreate |-> call[p].hash])])
    /\ Throw(p, "ok")
    /\ UNCHANGED <<clock, ledger, others>>

\* Mutant of markDelivered: a missing trade is reported like a trade in
\* the wrong state.
markDelivered_missingAsInvalid(p, tradeId) ==
    /\ call[p].pc = "idle"
    /\ LET trade == getTrade(tradeId)
       IN  IF trade = Null \/ trade.state # "locked" THEN
               /\ Finish(p, "deliver", tradeId, "InvalidState")
               /\ UNCHANGED trades
           ELSE
               /\ trades' = updateTrade(tradeId, [state |-> "delivered"])
               /\ Finish(p, "deliver", tradeId, "ok")
    /\ UNCHANGED <<clock, ledger, others>>

\* Mutant of markDelivered: the delivery is stored with a confirmation
\* reference of its own.
markDelivered_withRef(p, tradeId) ==
    /\ call[p].pc = "idle"
    /\ LET trade == getTrade(tradeId)
       IN  IF trade = Null THEN
               /\ Finish(p, "deliver", tradeId, "NotFound")
               /\ UNCHANGED trades
           ELSE IF trade.state # "locked" THEN
               /\ Finish(p, "deliver", tradeId, "InvalidState")
               /\ UNCHANGED trades
           ELSE
               /\ trades' = updateTrade(tradeId,
                               [state |-> "delivered",
                                txHashes |-> [delivery |-> txCount]])
               /\ Finish(p, "deliver", tradeId, "ok")
    /\ UNCHANGED <<clock, ledger, others>>

\* ---- markDelivered: synchronous, one segment
markDelivered(p, tradeId) ==
    /\ call[p].pc = "idle"
    /\ LET trade == getTrade(tradeId)
       IN  IF trade = Null THEN
               /\ Finish(p, "deliver", tradeId, "NotFound")
               /\ UNCHANGED trades
           ELSE IF trade.state # "locked" THEN
               /\ Finish(p, "deliver", tradeId, "InvalidState")
               /\ UNCHANGED trades
           ELSE
               /\ trades' = updateTrade(tradeId, [state |-> "delivered"])
               /\ Finish(p, "deliver", tradeId, "ok")
    /\ UNCHANGED <<clock, ledger, others>>

\* ---- releaseTokens: up to the first await
releaseTokens(p, tradeId, signer) ==
    /\ call[p].pc = "idle"
    /\ LET trade == getTrade(tradeId)
       IN  IF trade = Null THEN Finish(p, "release", tradeId, "NotFound")
           ELSE IF trade.state # "locked" /\ trade.state # "delivered"
                THEN Finish(p, "release", tradeId, "InvalidState")
           ELSE Await(p, "release", tradeId, signer, trade, "submit")
    /\ UNCHANGED <<trades, clock, ledger, others>>

\* await contract.releaseEscrow(tradeHash)
releaseTokens_releaseEscrow(p) ==
    /\ At(p, "release", "submit")
    /\ \/ IF releaseEscrowReverts(call[p].signer, call[p].trade.tradeHash)
          THEN Throw(p, "LedgerRejected") /\ UNCHANGED ledger
          ELSE Sent(p)
       \/ Throw(p, "LedgerUnavailable") /\ UNCHANGED ledger
    /\ UNCHANGED <<trades, clock, others>>

\* Mutant of releaseTokens_wait: the status of the receipt is not checked.
releaseTokens_wait_unchecked(p) ==
    /\ At(p, "release", "wait")
    /\ IF releaseEscrowReverts(call[p].signer, call[p].trade.tradeHash)
       THEN UNCHANGED <<escrows, balanceOf, allowance>> /\ Confirmed(p)
       ELSE /\ releaseEscrow(call[p].signer, call[p].trade.tradeHash)
            /\ Confirmed(p)
    /\ UNCHANGED <<trades, clock, others>>

\* await tx.wait()
releaseTokens_wait(p) ==
    /\ At(p, "release", "wait")
    /\ IF releaseEscrowReverts(call[p].signer, call[p].trade.tradeHash)
       THEN Throw(p, "LedgerRejected") /\ UNCHANGED ledger
       ELSE /\ releaseEscrow(call[p].signer, call[p].trade.tradeHash)
            /\ (Confirmed(p) \/ Lost(p))
    /\ UNCHANGED <<trades, clock, others>>

\* Mutant of releaseTokens_commit: the release confirmation is not stored.
releaseTokens_commit_noRef(p) ==
    /\ At(p, "release", "commit")
    /\ trades' = updateTrade(call[p].id, [state |-> "released"])
    /\ Throw(p, "ok")
    /\ UNCHANGED <<clock, ledger, others>>

\* return this.updateTrade(tradeId, {state: "released", txHashes: ...})
releaseTokens_commit(p) ==
    /\ At(p, "release", "commit")
    /\ trades' = updateTrade(call[p].id,
                    [state |-> "released",
                     txHashes |-> Spread(call[p].trade.txHashes,
                                         [release |-> call[p].hash])])
    /\ Throw(p, "ok")
    /\ UNCHANGED <<clock, ledger, others>>

\* Mutant of refundTokens: a delivered trade passes the state check too.
refundTokens_allowDelivered(p, tradeId, signer) ==
    /\ call[p].pc = "idle"
    /\ LET trade == getTrade(tradeId)
       IN  IF trade = Null THEN Finish(p, "refund", tradeId, "NotFound")
           ELSE IF trade.state # "locked" /\ trade.state # "delivered"
                THEN Finish(p, "refund", tradeId, "InvalidState")
           ELSE Await(p, "refund", tradeId, signer, trade, "submit")
    /\ UNCHANGED <<trades, clock, ledger, others>>

\* ---- refundTokens: up to the first await
refundTokens(p, tradeId, signer) ==
    /\ call[p].pc = "idle"
    /\ LET trade == getTrade(tradeId)
       IN  IF trade = Null THEN Finish(p, "refund", tradeId, "NotFound")
           ELSE IF trade.state # "locked"
                THEN Finish(p, "refund", tradeId, "InvalidState")
           ELSE Await(p, "refund", tradeId, signer, trade, "submit")
    /\ UNCHANGED <<trades, clock, ledger, others>>

\* Mutant of refundTokens_refundEscrow: a rejected refund still touches the
\* record before the error is rethrown.
refundTokens_refundEscrow_touch(p) ==
    /\ At(p, "refund", "submit")
    /\ \/ IF refundEscrowReverts(call[p].signer, call[p].trade.tradeHash)
          THEN /\ Throw(p, "LedgerRejected")
               /\ trades' = updateTrade(call[p].id, [state |-> "locked"])
               /\ UNCHANGED ledger
          ELSE /\ Sent(p)
               /\ UNCHANGED trades
       \/ /\ Throw(p, "LedgerUnavailable")
          /\ UNCHANGED <<trades, ledger>>
    /\ UNCHANGED <<clock, others>>

\* Mutant of refundTokens_refundEscrow: tx.wait() is not awaited; the hash
\* of the submitted transaction is stored as the confirmation.
refundTokens_refundEscrow_noWait(p) ==
    /\ At(p, "refund", "submit")
    /\ \/ IF refundEscrowReverts(call[p].signer, call[p].trade.tradeHash)
          THEN Throw(p, "LedgerRejected")
          ELSE call' = [call EXCEPT ![p].pc = "commit", ![p].hash = txCount + 1]
       \/ Throw(p, "LedgerUnavailable")
    /\ UNCHANGED <<trades, clock, ledger, others>>

\* await contract.refundEscrow(tradeHash)
refundTokens_refundEscrow(p) ==
    /\ At(p, "refund", "submit")
    /\ \/ IF refundEscrowReverts(call[p].signer, call[p].trade.tradeHash)
          THEN Throw(p, "LedgerRejected") /\ UNCHANGED ledger
          ELSE Sent(p)
       \/ Throw(p, "LedgerUnavailable") /\ UNCHANGED ledger
    /\ UNCHANGED <<trades, clock, others>>

\* Mutant of refundTokens_wait: the status of the receipt is not checked.
refundTokens_wait_unchecked(p) ==
    /\ At(p, "refund", "wait")
    /\ IF refundEscrowReverts(call[p].signer, call[p].trade.tradeHash)
       THEN UNCHANGED <<escrows, balanceOf, allowance>> /\ Confirmed(p)
       ELSE /\ refundEscrow(call[p].signer, call[p].trade.tradeHash)
            /\ Confirmed(p)
    /\ UNCHANGED <<trades, clock, others>>

\* await tx.wait()
refundTokens_wait(p) ==
    /\ At(p, "refund", "wait")
    /\ IF refundEscrowReverts(call[p].signer, call[p].trade.tradeHash)
       THEN Throw(p, "LedgerRejected") /\ UNCHANGED ledger
       ELSE /\ refundEscrow(call[p].signer, call[p].trade.tradeHash)
            /\ (Confirmed(p) \/ Lost(p))
    /\ UNCHANGED <<trades, clock, others>>

\* Mutant of refundTokens_commit: a refund that the contract owner signed
\* (dispute resolution) is stored as disputed.
refundTokens_commit_disputed(p) ==
    /\ At(p, "refund", "commit")
    /\ trades' = updateTrade(call[p].id,
                    [state |-> IF call[p].signer = Owner
                               THEN "disputed" ELSE "refunded",
                     txHashes |-> Spread(call[p].trade.txHashes,
                                         [refund |-> call[p].hash])])
    /\ Throw(p, "ok")
    /\ UNCHANGED <<clock, ledger, others>>

\* return this.updateTrade(tradeId, {state: "refunded", txHashes: ...})
refundTokens_commit(p) ==
    /\ At(p, "refund", "commit")
    /\ trades' = updateTrade(call[p].id,
                    [state |-> "refunded",
                     txHashes |-> Spread(call[p].trade.txHashes,
                                         [refund |-> call[p].hash])])
    /\ Throw(p, "ok")
    /\ UNCHANGED <<clock, ledger, others>>

Next ==
    \/ Tick
    \/ \E a \in Signers, v \in {parseUnits(x) : x \in Amounts} :
          HolderApprove(a, a, v)
    \/ \E params \in InitiateParams : initiateTrade(params)
    \/ \E p \in Procs, tradeId \in TradeIds : markDelivered(p, tradeId)
    \/ \E p \in Procs, tradeId \in TradeIds, signer \in Signers :
          \/ lockTokens(p, tradeId, signer)
          \/ releaseTokens(p, tradeId, signer)
          \/ refundTokens(p, tradeId, signer)
    \/ \E p \in Procs :
          \/ lockTokens_approve(p)
          \/ lockTokens_createEscrow(p)
          \/ lockTokens_wait(p)
          \/ lockTokens_commit(p)
          \/ releaseTokens_releaseEscrow(p)
          \/ releaseTokens_wait(p)
          \/ releaseTokens_commit(p)
          \/ refundTokens_refundEscrow(p)
          \/ refundTokens_wait(p)
          \/ refundTokens_commit(p)

Spec == Init /\ [][Next]_vars

\* --------------------------------------------- transactions of any wallet
\* ClawToken is a public contract: any account sends createEscrow,
\* releaseEscrow and refundEscrow with arguments of its choice.  receipt
\* keeps the transaction and its status (1 mined, 0 reverted).
send_createEscrow(from, seller, amount, tradeId) ==
    /\ IF createEscrowReverts(from, seller, amount, tradeId)
       THEN /\ receipt' = [from |-> from, fn |-> "createEscrow",
                           tradeId |-> tradeId, seller |-> seller,
                           amount |-> amount, status |-> 0]
            /\ UNCHANGED <<escrows, balanceOf, allowance>>
       ELSE /\ createEscrow(from, seller, amount, tradeId)
            /\ receipt' = [from |-> from, fn |-> "createEscrow",
                           tradeId |-> tradeId, seller |-> seller,
                           amount |-> amount, status |-> 1]
    /\ UNCHANGED <<trades, call, clock, txCount, request, reply,
                   walletJson, marketplaceJson>>

send_releaseEscrow(from, tradeId) ==
    /\ IF releaseEscrowReverts(from, tradeId)
       THEN /\ receipt' = [from |-> from, fn |-> "releaseEscrow",
                           tradeId |-> tradeId, status |-> 0]
            /\ UNCHANGED <<escrows, balanceOf, allowance>>
       ELSE /\ releaseEscrow(from, tradeId)
            /\ receipt' = [from |-> from, fn |-> "releaseEscrow",
                           tradeId |-> tradeId, status |-> 1]
    /\ UNCHANGED <<trades, call, clock, txCount, request, reply,
                   walletJson, marketplaceJson>>

send_refundEscrow(from, tradeId) ==
    /\ IF refundEscrowReverts(from, tradeId)
       THEN /\ receipt' = [from |-> from, fn |-> "refundEscrow",
                           tradeId |-> tradeId, status |-> 0]
            /\ UNCHANGED <<escrows, balanceOf, allowance>>
       ELSE /\ refundEscrow(from, tradeId)
            /\ receipt' = [from |-> from, fn |-> "refundEscrow",
                           tradeId |-> tradeId, status |-> 1]
    /\ UNCHANGED <<trades, call, clock, txCount, request, reply,
                   walletJson, marketplaceJson>>

Senders == {Buyer, Owner, Seller}

NextLedger ==
    \/ Tick
    \/ \E a \in Signers, v \in {parseUnits(x) : x \in Amounts} :
          HolderApprove(a, a, v)
    \/ \E from \in Senders, seller \in {Zero, Seller},
          amount \in {parseUnits(x) : x \in Amounts}, tradeId \in LedgerIds :
          send_createEscrow(from, seller, amount, tradeId)
    \/ \E from \in Senders, tradeId \in LedgerIds :
          \/ send_releaseEscrow(from, tradeId)
          \/ send_refundEscrow(from, tradeId)

SpecLedger == Init /\ [][NextLedger]_vars

\* ------------------------------------------------------- HTTP transport
\* err.message of the Error a call ended with: the texts of the throw
\* statements of the EscrowManager, and for an error raised by ethers the
\* text ethers gives it.
message(kind) ==
    CASE kind = "NotFound"          -> "Trade not found"
      [] kind = "InvalidState"      -> "Trade not in state"
      [] kind = "LedgerRejected"    -> "execution reverted"
      [] kind = "LedgerUnavailable" -> "could not coalesce error"
      [] kind = "ConfirmationLost"  -> "could not coalesce error"

\* handle(): the response to the request whose call ended as call[p] shows.
\* Every exception becomes status 400 with {error: message}.
handle(p) ==
    IF call[p].result = "ok"
    THEN [status |-> 200, body |-> getTrade(call[p].id)]
    ELSE [status |-> 400, body |-> [error |-> message(call[p].result)]]

\* ------------------------------------------------ one call at a time
\* The same operations with a single caller: no two calls overlap.
NextSolo ==
    \/ Tick
    \/ \E a \in Signers, v \in {parseUnits(x) : x \in Amounts} :
          HolderApprove(a, a, v)
    \/ \E params \in InitiateParams : initiateTrade(params)
    \/ \E p \in Solo, tradeId \in TradeIds : markDelivered(p, tradeId)
    \/ \E p \in Solo, tradeId \in TradeIds, signer \in Signers :
          \/ lockTokens(p, tradeId, signer)
          \/ releaseTokens(p, tradeId, signer)
          \/ refundTokens(p, tradeId, signer)
    \/ \E p \in Solo :
          \/ lockTokens_approve(p)
          \/ lockTokens_createEscrow(p)
          \/ lockTokens_wait(p)
          \/ lockTokens_commit(p)
          \/ releaseTokens_releaseEscrow(p)
          \/ releaseTokens_wait(p)
          \/ releaseTokens_commit(p)
          \/ refundTokens_refundEscrow(p)
          \/ refundTokens_wait(p)
          \/ refundTokens_commit(p)

SpecSolo == Init /\ [][NextSolo]_vars

\* What the runtime guarantees: time passes, and the continuation of a
\* resolved await runs (the synchronous store write after tx.wait()).  The
\* node and the chain guarantee nothing: a request or a receipt may never
\* arrive, and neither `await contract.f(...)` nor `await tx.wait()` is
\* given a timeout.
FairSpec ==
    /\ SpecSolo
    /\ WF_vars(Tick)
    /\ \A p \in Solo : WF_vars(\/ lockTokens_commit(p)
                                \/ releaseTokens_commit(p)
                                \/ refundTokens_commit(p))

\* --------------------------------------------- crash during a store write
\* The process dies inside saveTrades, after writeFileSync has truncated
\* trades.json and before the new content is complete.  The calls in
\* flight die with it; the ledger is not affected.
CrashInSave(p) ==
    /\ call[p].pc = "commit"
    /\ trades' = Torn
    /\ call' = [q \in Procs |-> Idle]
    /\ UNCHANGED <<clock, ledger, others>>

NextCrash ==
    \/ NextSolo
    \/ \E p \in Solo : CrashInSave(p)

SpecCrash == Init /\ [][NextCrash]_vars

\* ------------------------------------------------- generated ids repeat
\* initiateTrade when Date.now() and Math.random() give any of RandomIds:
\* nothing in initiateTrade compares the new id with the stored ones.
initiateTradeRandom(tradeId, params) ==
    /\ Len(loadTrades) < MaxTrades
    /\ initiateTradeAs(tradeId, params)

NextIds ==
    \/ Tick
    \/ \E a \in Signers, v \in {parseUnits(x) : x \in Amounts} :
          HolderApprove(a, a, v)
    \/ \E tradeId \in RandomIds, params \in InitiateParams :
          initiateTradeRandom(tradeId, params)
    \/ \E p \in Solo, tradeId \in RandomIds : markDelivered(p, tradeId)
    \/ \E p \in Solo, tradeId \in RandomIds, signer \in Signers :
          lockTokens(p, tradeId, signer)
    \/ \E p \in Solo :
          \/ lockTokens_approve(p)
          \/ lockTokens_createEscrow(p)
          \/ lockTokens_wait(p)
          \/ lockTokens_commit(p)

SpecIds == Init /\ [][NextIds]_vars

\* ------------------------------------------------------------ two trades
\* initiateTrade with a store of up to two trades, each with its own id.
initiateTradePair(params) ==
    /\ Len(loadTrades) < Cardinality(PairIds)
    /\ initiateTradeAs(Len(loadTrades) + 1, params)

\* Two trades with a call in flight on each: caller p works on trade p.
NextPair ==
    \/ \E a \in Signers, v \in {parseUnits(x) : x \in Amounts} :
          HolderApprove(a, a, v)
    \/ \E params \in InitiateParams : initiateTradePair(params)
    \/ \E p \in Procs : markDelivered(p, p)
    \/ \E p \in Procs, signer \in Signers :
          \/ lockTokens(p, p, signer)
          \/ releaseTokens(p, p, signer)
          \/ refundTokens(p, p, signer)
    \/ \E p \in Procs :
          \/ lockTokens_approve(p)
          \/ lockTokens_createEscrow(p)
          \/ lockTokens_wait(p)
          \/ lockTokens_commit(p)
          \/ releaseTokens_releaseEscrow(p)
          \/ releaseTokens_wait(p)
          \/ releaseTokens_commit(p)
          \/ refundTokens_refundEscrow(p)
          \/ refundTokens_wait(p)
          \/ refundTokens_commit(p)

SpecPair == Init /\ [][NextPair]_vars

\* ----------------------------------------------------------------- queries
\* GET /commerce/trade/active and GET /commerce/trade/history: reply keeps
\* what the query returned.
call_getActiveTrades ==
    /\ reply' = [op |-> "getActiveTrades", value |-> getActiveTrades]
    /\ UNCHANGED <<trades, call, clock, ledger, request, receipt,
                   walletJson, marketplaceJson>>

call_getTradesByAgent(agentId) ==
    /\ reply' = [op |-> "getTradesByAgent", agentId |-> agentId,
                 value |-> getTradesByAgent(agentId)]
    /\ UNCHANGED <<trades, call, clock, ledger, request, receipt,
                   walletJson, marketplaceJson>>

AgentIds == {"B", "S", "X"}

QueryParams ==
    [listingId : {"svc_1"}, buyerAgentId : {"B", "S"},
     sellerAgentId : {"S"}, buyerAddress : {Buyer},
     sellerAddress : {Seller}, amount : {1}]

\* One caller who signs with the owner's wallet, two trades between
\* different agents, and the queries.
NextQuery ==
    \/ HolderApprove(Owner, Owner, InitialFunds)
    \/ \E params \in QueryParams : initiateTradePair(params)
    \/ \E p \in Solo, tradeId \in PairIds : markDelivered(p, tradeId)
    \/ \E p \in Solo, tradeId \in PairIds, signer \in {Owner} :
          \/ lockTokens(p, tradeId, signer)
          \/ releaseTokens(p, tradeId, signer)
          \/ refundTokens(p, tradeId, signer)
    \/ \E p \in Solo :
          \/ lockTokens_approve(p)
          \/ lockTokens_createEscrow(p)
          \/ lockTokens_wait(p)
          \/ lockTokens_commit(p)
          \/ releaseTokens_releaseEscrow(p)
          \/ releaseTokens_wait(p)
          \/ releaseTokens_commit(p)
          \/ refundTokens_refundEscrow(p)
          \/ refundTokens_wait(p)
          \/ refundTokens_commit(p)
    \/ call_getActiveTrades
    \/ \E agentId \in AgentIds : call_getTradesByAgent(agentId)

SpecQuery == Init /\ [][NextQuery]_vars

\* ---------------------------------------------------------- WalletManager
Managers == {1, 2}            \* WalletManager instances over one stateDir
Keys     == {"k1", "k2", "k3", "k4"}  \* private keys

\* The address of a key pair: a function of the private key, injective.
addressOf(privateKey) == <<"0x", privateKey>>

\* loadWallet(): the stored WalletInfo, or null.
loadWallet == walletJson

\* Mutant of create: a stored wallet is not looked for.
create_alwaysNew(m) ==
    /\ \E privateKey \in Keys :
          LET info == [address |-> addressOf(privateKey),
                       privateKey |-> privateKey, createdAt |-> clock]
          IN  /\ walletJson' = info
              /\ reply' = [op |-> "create", by |-> m, value |-> info]
    /\ UNCHANGED <<trades, call, clock, ledger, request, receipt,
                   marketplaceJson>>

\* create(): ethers.Wallet.createRandom() gives any key.
create(m) ==
    /\ LET existing == loadWallet
       IN  IF existing # Null
           THEN /\ reply' = [op |-> "create", by |-> m, value |-> existing]
                /\ UNCHANGED walletJson
           ELSE \E privateKey \in Keys :
                   LET info == [address |-> addressOf(privateKey),
                                privateKey |-> privateKey,
                                createdAt |-> clock]
                   IN  /\ walletJson' = info
                       /\ reply' = [op |-> "create", by |-> m, value |-> info]
    /\ UNCHANGED <<trades, call, clock, ledger, request, receipt,
                   marketplaceJson>>

importKey(m, privateKey) ==
    /\ LET info == [address |-> addressOf(privateKey),
                    privateKey |-> privateKey, createdAt |-> clock]
       IN  /\ walletJson' = info
           /\ reply' = [op |-> "importKey", by |-> m, value |-> info]
    /\ UNCHANGED <<trades, call, clock, ledger, request, receipt,
                   marketplaceJson>>

getAddress(m) ==
    /\ reply' = [op |-> "getAddress", by |-> m,
                 value |-> IF loadWallet = Null THEN <<>>
                           ELSE loadWallet.address]
    /\ UNCHANGED <<trades, call, clock, ledger, request, receipt,
                   walletJson, marketplaceJson>>

hasWallet(m) ==
    /\ reply' = [op |-> "hasWallet", by |-> m, value |-> loadWallet # Null]
    /\ UNCHANGED <<trades, call, clock, ledger, request, receipt,
                   walletJson, marketplaceJson>>

NextWallet ==
    \/ Tick
    \/ \E m \in Managers :
          \/ create(m)
          \/ getAddress(m)
          \/ hasWallet(m)
          \/ \E privateKey \in Keys : importKey(m, privateKey)

SpecWallet == Init /\ [][NextWallet]_vars

\* ---------------------------------------------------- MarketplaceRegistry
ListingIds == {1, 2}    \* values generateId() may return
ListingInputs == [agentId : {"agent-1"}, name : {"a", "b"}, price : {10}]
ListingPatches == {[status |-> "paused"], [name |-> "c", price |-> 35]}

loadListings == marketplaceJson

\* get(id): the first listing with that id, or null.
get(id) ==
    LET idx == findIndex(loadListings, id)
    IN  IF idx = 0 THEN Null ELSE loadListings[idx]

\* publish(listing) with id standing for generateId().
publish(id, listing) ==
    /\ Len(loadListings) < MaxListings
    /\ LET now == clock
           newListing == Spread(listing, [id |-> id, status |-> "active",
                                          createdAt |-> now,
                                          updatedAt |-> now])
       IN  /\ marketplaceJson' = Append(loadListings, newListing)
           /\ reply' = [op |-> "publish", id |-> id, value |-> newListing]
    /\ UNCHANGED <<trades, call, clock, ledger, request, receipt, walletJson>>

update(id, patch) ==
    /\ LET listings == loadListings
           index == findIndex(listings, id)
       IN  IF index = 0
           THEN /\ reply' = [op |-> "update", id |-> id, value |-> Null]
                /\ UNCHANGED marketplaceJson
           ELSE LET new == Spread(Spread(listings[index], patch),
                                  [updatedAt |-> clock])
                IN  /\ marketplaceJson' = [listings EXCEPT ![index] = new]
                    /\ reply' = [op |-> "update", id |-> id, value |-> new]
    /\ UNCHANGED <<trades, call, clock, ledger, request, receipt, walletJson>>

\* Mutant of remove: only the first listing with the id is taken out.
remove_firstOnly(id) ==
    /\ LET listings == loadListings
           index == findIndex(listings, id)
       IN  IF index = 0
           THEN /\ reply' = [op |-> "remove", id |-> id, value |-> FALSE]
                /\ UNCHANGED marketplaceJson
           ELSE /\ marketplaceJson' = SubSeq(listings, 1, index - 1)
                                      \o SubSeq(listings, index + 1, Len(listings))
                /\ reply' = [op |-> "remove", id |-> id, value |-> TRUE]
    /\ UNCHANGED <<trades, call, clock, ledger, request, receipt, walletJson>>

remove(id) ==
    /\ LET listings == loadListings
           filtered == SelectSeq(listings, LAMBDA l : l.id # id)
       IN  IF Len(filtered) = Len(listings)
           THEN /\ reply' = [op |-> "remove", id |-> id, value |-> FALSE]
                /\ UNCHANGED marketplaceJson
           ELSE /\ marketplaceJson' = filtered
                /\ reply' = [op |-> "remove", id |-> id, value |-> TRUE]
    /\ UNCHANGED <<trades, call, clock, ledger, request, receipt, walletJson>>

call_get(id) ==
    /\ reply' = [op |-> "get", id |-> id, value |-> get(id)]
    /\ UNCHANGED <<trades, call, clock, ledger, request, receipt,
                   walletJson, marketplaceJson>>

NextMarket ==
    \/ Tick
    \/ \E id \in ListingIds :
          \/ \E listing \in ListingInputs : publish(id, listing)
          \/ \E patch \in ListingPatches : update(id, patch)
          \/ remove(id)
          \/ call_get(id)

SpecMarket == Init /\ [][NextMarket]_vars

\* ================================================================ claims
Stored == 1..Len(trades)

MoneyOps == {"lock", "release", "refund"}

\* A call that has passed validation and not yet returned: it is about to
\* send, or waits for, a ledger transaction, or is about to write the store.
InSection(p) == call[p].pc \in {"approve", "submit", "wait", "commit"}

\* ---- C1
\* C1: every change of a trade's stored state follows one of the edges
\* pending->locked, locked->delivered, locked->released,
\* delivered->released, locked->refunded; never delivered->refunded.
Edges == {<<"pending", "locked">>, <<"locked", "delivered">>,
          <<"locked", "released">>, <<"delivered", "released">>,
          <<"locked", "refunded">>}

C1_TransitionsFollowEdges ==
    [][\A i \in Stored :
          trades'[i].state # trades[i].state
              => <<trades[i].state, trades'[i].state>> \in Edges]_vars

\* ---- C2
\* C2: of two lockTokens calls on the same pending trade at most one has a
\* createEscrow transaction at the ledger; the other one failed before it
\* submitted anything.
C2_SingleLockSubmission ==
    \A p, q \in Procs :
        (/\ p # q
         /\ call[p].op = "lock" /\ call[q].op = "lock"
         /\ call[p].id = call[q].id
         /\ call[p].pc \in {"wait", "commit"})
            => call[q].pc \notin {"wait", "commit"}

\* ---- C3
\* C3: at most one money-moving call per trade is between its state
\* validation and its local commit or ledger failure.
C3_OneCallInSection ==
    \A p, q \in Procs :
        (p # q /\ InSection(p) /\ InSection(q)) => call[p].id # call[q].id

\* ---- C4
\* C4: the local record never claims a ledger state the ledger does not
\* hold: locked or delivered needs an escrow that is LOCKED or later,
\* released needs RELEASED, refunded needs REFUNDED.
LedgerHolds(trade) ==
    LET onChain == EscrowOf(trade.tradeHash).state
    IN  /\ trade.state \in {"locked", "delivered"}
            => onChain \in {"LOCKED", "RELEASED", "REFUNDED"}
        /\ trade.state = "released" => onChain = "RELEASED"
        /\ trade.state = "refunded" => onChain = "REFUNDED"

C4_LocalNeverAheadOfLedger == \A i \in Stored : LedgerHolds(trades[i])

C4_Witness ==
    \E i \in Stored :
        /\ trades[i].state = "released"
        /\ EscrowOf(trades[i].tradeHash).state = "RELEASED"
\* ---- C5
\* C5: a call that ends at a ledger step (approval, submission or
\* confirmation) ends with the ledger's failure kind and leaves the store
\* as it was; the store is written only by initiateTrade and by the step in
\* which a call returns successfully.
LedgerFailures == {"LedgerRejected", "LedgerUnavailable", "ConfirmationLost"}

C5_FailedLedgerCallWritesNothing ==
    [][/\ \A p \in Procs :
             (call[p].pc \in {"approve", "submit", "wait"} /\ call'[p].pc = "idle")
                 => (call'[p].result \in LedgerFailures /\ trades' = trades)
       /\ trades' # trades
             => \/ Len(trades') > Len(trades)
                \/ \E p \in Procs : /\ call'[p] # call[p]
                                    /\ call'[p].pc = "idle"
                                    /\ call'[p].result = "ok"]_vars

C5_Witness ==
    \E p \in Procs :
        /\ call[p].op = "refund"
        /\ call[p].result = "LedgerRejected"
        /\ getTrade(call[p].id).state = "locked"

\* ---- C6
\* C6: a lifecycle operation begun on a stored trade whose state is outside
\* the operation's precondition ends at once with InvalidState and leaves
\* the store unchanged.
Precondition(op) ==
    CASE op = "lock"    -> {"pending"}
      [] op = "deliver" -> {"locked"}
      [] op = "release" -> {"locked", "delivered"}
      [] op = "refund"  -> {"locked"}

\* Caller p begins a call in this step.
Begins(p) == call[p].pc = "idle" /\ call'[p] # call[p]

C6_IllegalTransitionRejected ==
    [][\A p \in Procs :
          (/\ Begins(p)
           /\ getTrade(call'[p].id) # Null
           /\ getTrade(call'[p].id).state \notin Precondition(call'[p].op))
              => /\ call'[p].pc = "idle"
                 /\ call'[p].result = "InvalidState"
                 /\ trades' = trades]_vars

C6_Witness ==
    \E p \in Procs :
        /\ call[p].op = "refund"
        /\ call[p].result = "InvalidState"
        /\ getTrade(call[p].id).state = "delivered"

\* ---- C7
\* C7: a money-moving call is at a ledger step (approval included) only if
\* the record it read satisfied the operation's state precondition.
C7_NoLedgerContactWithoutPrecondition ==
    \A p \in Procs :
        InSection(p) => call[p].trade.state \in Precondition(call[p].op)

C7_Witness ==
    \E p \in Procs :
        /\ call[p].op = "lock"
        /\ call[p].result = "InvalidState"
        /\ getTrade(call[p].id).state = "locked"

\* ---- C8
\* C8: txHashes.escrowCreate is set if and only if the state is locked,
\* delivered, released or refunded.
C8_LockConfirmationIffLocked ==
    \A i \in Stored :
        ("escrowCreate" \in DOMAIN trades[i].txHashes)
            <=> trades[i].state \in {"locked", "delivered", "released", "refunded"}

C8_Witness ==
    \E i \in Stored :
        /\ trades[i].state = "locked"
        /\ "escrowCreate" \in DOMAIN trades[i].txHashes

\* ---- C9
\* C9: a confirmation slot that holds a transaction reference keeps that
\* reference in every later state.
C9_ConfirmationWrittenOnce ==
    [][\A i \in Stored :
          \A k \in DOMAIN trades[i].txHashes :
              /\ k \in DOMAIN trades'[i].txHashes
              /\ trades'[i].txHashes[k] = trades[i].txHashes[k]]_vars

C9_Witness ==
    \E i \in Stored :
        /\ DOMAIN trades[i].txHashes = {"escrowCreate", "release"}
        /\ trades[i].txHashes["escrowCreate"] # trades[i].txHashes["release"]

\* ---- C10
\* C10: a trade enters the store in state pending, and a stored state of
\* released or refunded never changes again.
C10_InitialAndTerminalStates ==
    [][/\ \A i \in Stored :
             trades[i].state \in {"released", "refunded"}
                 => trades'[i].state = trades[i].state
       /\ \A i \in 1..Len(trades') :
             i > Len(trades) => trades'[i].state = "pending"]_vars

C10_Witness ==
    \E i \in Stored, p \in Procs :
        /\ trades[i].state = "released"
        /\ InSection(p)
        /\ call[p].id = trades[i].id

\* ---- C11
\* C11: a lock call on a trade that is pending locally while the ledger
\* already holds its escrow as LOCKED (the confirmation of an earlier call
\* was lost) treats the ledger's rejection as "already applied": the record
\* ends up locked.
C11_RejectedRetryAdoptsLock ==
    [][\A p \in Procs :
          (/\ call[p].op = "lock" /\ InSection(p)
           /\ call'[p].pc = "idle"
           /\ call'[p].result = "LedgerRejected"
           /\ EscrowOf(call[p].trade.tradeHash).state = "LOCKED"
           /\ getTrade(call[p].id).state = "pending")
              => trades'[findIndex(trades', call[p].id)].state = "locked"]_vars

\* ---- C12
\* C12: after a money-moving call ended without knowing whether the ledger
\* applied its transaction, the next money-moving call on the same trade
\* queries the ledger's escrow record before it submits anything: it does
\* not go straight to the approval or to the submission.
C12_QueryBeforeResubmission ==
    [][\A p \in Procs :
          (/\ Begins(p)
           /\ call[p].result = "ConfirmationLost"
           /\ call'[p].op \in MoneyOps
           /\ call'[p].id = call[p].id)
              => call'[p].pc \notin {"approve", "submit"}]_vars

\* ---- C13
\* C13: every money-moving call that has submitted a transaction returns
\* in the end, with the confirmation, a rejection or a timeout.
C13_SubmittedCallReturns ==
    \A p \in Procs : (call[p].pc = "wait") ~> (call[p].pc = "idle")

\* ---- C14
\* C14: a call that validated against a snapshot of the trade that another
\* call has replaced since does not write: it fails with Conflict or
\* InvalidState and the store stays as it is.
C14_StaleWriteFailsFast ==
    [][\A p \in Procs :
          (/\ call[p].pc = "commit"
           /\ call'[p].pc = "idle"
           /\ getTrade(call[p].id) # call[p].trade)
              => /\ trades' = trades
                 /\ call'[p].result \in {"Conflict", "InvalidState"}]_vars

\* ---- C15
\* C15: no step changes id, tradeHash, listing, parties, addresses, amount
\* or createdAt of a stored trade; a write changes only state, txHashes and
\* updatedAt.
Immutable == {"id", "tradeHash", "listingId", "buyerAgentId", "sellerAgentId",
              "buyerAddress", "sellerAddress", "amount", "createdAt"}

C15_IdentityFieldsFrozen ==
    [][\A i \in Stored :
          /\ i <= Len(trades')
          /\ DOMAIN trades'[i] = DOMAIN trades[i]
          /\ \A k \in Immutable : trades'[i][k] = trades[i][k]]_vars

C15_Witness ==
    \E i \in Stored :
        /\ trades[i].state = "released"
        /\ trades[i].updatedAt > trades[i].createdAt
        /\ trades[i].amount = request.amount

\* ---- C16
\* C16: initiate refuses an amount that is not strictly positive, so every
\* stored trade has a strictly positive amount.
C16_StoredAmountsPositive == \A i \in Stored : trades[i].amount > 0

C18_SequentialFlow ==
    [][\A p \in Procs :
          (/\ call'[p] # call[p]
           /\ call'[p].pc = "idle"
           /\ call'[p].result = "ok")
              => LET op  == call'[p].op
                     old == getTrade(call'[p].id)
                     new == trades'[findIndex(trades', call'[p].id)]
                 IN  /\ op = "lock" =>
                            /\ old.state = "pending"
                            /\ new.state = "locked"
                            /\ new.txHashes = [escrowCreate |-> call[p].hash]
                     /\ op = "deliver" =>
                            /\ old.state = "locked"
                            /\ new.state = "delivered"
                            /\ new.txHashes = old.txHashes
                     /\ op = "release" =>
                            /\ old.state \in {"locked", "delivered"}
                            /\ new.state = "released"
                            /\ new.txHashes =
                                  [escrowCreate |-> old.txHashes.escrowCreate,
                                   release |-> call[p].hash]]_vars

C18_Witness ==
    \E p \in Solo :
        /\ call[p].op = "release"
        /\ call[p].result = "ok"
        /\ getTrade(call[p].id).state = "released"
        /\ DOMAIN getTrade(call[p].id).txHashes = {"escrowCreate", "release"}
        /\ getTrade(call[p].id).updatedAt > getTrade(call[p].id).createdAt

\* ---- C19
\* C19: a trade that getTrade returns is returned in every later state,
\* whatever operations, failures or crashes during a store write happen.
C19_TradeNeverLost ==
    [][\A tradeId \in TradeIds :
          getTrade(tradeId) # Null => (getTrade(tradeId))' # Null]_vars

\* ---- C20
\* C20: no two records of the store share an id.
C20_IdsUnique ==
    \A i, j \in 1..Len(loadTrades) :
        i # j => loadTrades[i].id # loadTrades[j].id

\* ---- C21
\* The ledger's verdict on the transaction that call p has built.
Rejects(p) ==
    LET trade == call[p].trade
    IN  CASE call[p].op = "lock" ->
                 createEscrowReverts(call[p].signer, trade.sellerAddress,
                                     parseUnits(trade.amount), trade.tradeHash)
          [] call[p].op = "release" ->
                 releaseEscrowReverts(call[p].signer, trade.tradeHash)
          [] call[p].op = "refund" ->
                 refundEscrowReverts(call[p].signer, trade.tradeHash)

\* A step of a call on trade A leaves the record and the escrow of every
\* other trade, and every other call, as they are; initiateTrade leaves
\* the stored records as they are.
TradesFramed ==
    /\ \A p \in Procs :
          call'[p] # call[p] =>
              /\ \A i \in Stored :
                    trades[i].id # call'[p].id =>
                        /\ trades'[i] = trades[i]
                        /\ (EscrowOf(trades[i].tradeHash))'
                              = EscrowOf(trades[i].tradeHash)
              /\ \A q \in Procs \ {p} : call'[q] = call[q]
    /\ Len(trades') > Len(trades) => \A i \in Stored : trades'[i] = trades[i]

\* A step of call q leaves the ledger's verdict on the transaction of a
\* call p on another trade as it was; `always` says whether that is also
\* required of a step that changes the token balance of p's signer.
VerdictsKept(always) ==
    \A p, q \in Procs :
        (/\ p # q
         /\ call'[q] # call[q]
         /\ call[p].pc \in {"submit", "wait"}
         /\ call[p].id # call'[q].id
         /\ always \/ balanceOf'[call[p].signer] = balanceOf[call[p].signer])
            => (Rejects(p))' = Rejects(p)

C22_UnknownTradeNotFound ==
    [][\A p \in Procs :
          (Begins(p) /\ getTrade(call'[p].id) = Null)
              => /\ call'[p].pc = "idle"
                 /\ call'[p].result = "NotFound"
                 /\ trades' = trades
                 /\ UNCHANGED ledger]_vars

C22_Witness ==
    \E p \in Procs :
        /\ call[p].op = "deliver"
        /\ call[p].result = "NotFound"
        /\ getTrade(call[p].id) = Null
        /\ DOMAIN escrows = {}

\* ---- C23
\* C23: every failure an operation reports carries exactly one of the
\* kinds InvalidArgument, InvalidState, NotFound, LedgerRejected,
\* LedgerUnavailable, LedgerTimeout, Conflict, so that an unknown outcome
\* can be told from a definitive rejection in the reported result.
Kinds == {"InvalidArgument", "InvalidState", "NotFound", "LedgerRejected",
          "LedgerUnavailable", "LedgerTimeout", "Conflict"}

C23_FailureKindReported ==
    \A p \in Procs :
        (call[p].pc = "idle" /\ call[p].result \notin {"none", "ok"})
            => /\ "kind" \in DOMAIN handle(p).body
               /\ handle(p).body.kind \in Kinds
               /\ (handle(p).body.kind = "LedgerTimeout")
                     <=> (call[p].result = "ConfirmationLost")

\* ---- C24
\* C24: createEscrow reverts, leaving every escrow and every balance as it
\* was, when the trade id already has an escrow, when the seller is the
\* zero address or when the amount is 0; otherwise, with the balance and
\* the allowance that its transferFrom needs, it creates an escrow in
\* state LOCKED with the sender as buyer and takes the amount in.
TxSent(fn) == receipt' # receipt /\ receipt'.fn = fn

C24_CreateEscrow ==
    [][TxSent("createEscrow") =>
          LET r   == receipt'
              bad == \/ EscrowOf(r.tradeId).state # "NONE"
                     \/ r.seller = Zero
                     \/ r.amount = 0
              funded == /\ balanceOf[r.from] >= r.amount
                        /\ allowance[r.from][r.from] >= r.amount
          IN  /\ bad => r.status = 0
              /\ r.status = 0 => UNCHANGED <<escrows, balanceOf, allowance>>
              /\ (~bad /\ funded) =>
                    /\ r.status = 1
                    /\ escrows'[r.tradeId].state = "LOCKED"
                    /\ escrows'[r.tradeId].buyer = r.from
                    /\ escrows'[r.tradeId].seller = r.seller
                    /\ escrows'[r.tradeId].amount = r.amount
                    /\ balanceOf'[r.from] = balanceOf[r.from] - r.amount
                    /\ balanceOf'[Contract] = balanceOf[Contract] + r.amount
                    /\ \A h \in DOMAIN escrows : escrows'[h] = escrows[h]]_vars

C24_Witness ==
    /\ receipt # Null
    /\ receipt.fn = "createEscrow"
    /\ receipt.status = 0
    /\ receipt.seller # Zero
    /\ receipt.amount > 0
    /\ EscrowOf(receipt.tradeId).state = "LOCKED"
    /\ EscrowOf(receipt.tradeId).buyer # receipt.from

\* ---- C25
\* C25: releaseEscrow is mined only for a LOCKED escrow and its buyer, and
\* then pays the amount to the seller; otherwise it reverts and changes
\* nothing; an escrow becomes RELEASED by no other step.
C25_ReleaseEscrow ==
    [][/\ TxSent("releaseEscrow") =>
             LET r   == receipt'
                 esc == EscrowOf(r.tradeId)
             IN  /\ r.status = 1 <=> (esc.state = "LOCKED" /\ r.from = esc.buyer)
                 /\ r.status = 0 => UNCHANGED <<escrows, balanceOf, allowance>>
                 /\ r.status = 1 =>
                       /\ escrows'[r.tradeId] = [esc EXCEPT !.state = "RELEASED"]
                       /\ esc.seller # Contract =>
                             /\ balanceOf'[esc.seller]
                                   = balanceOf[esc.seller] + esc.amount
                             /\ balanceOf'[Contract]
                                   = balanceOf[Contract] - esc.amount
       /\ \A h \in DOMAIN escrows :
             (escrows[h].state # "RELEASED" /\ escrows'[h].state = "RELEASED")
                 => /\ TxSent("releaseEscrow")
                    /\ receipt'.tradeId = h
                    /\ receipt'.from = escrows[h].buyer]_vars

C25_Witness ==
    /\ receipt # Null
    /\ receipt.fn = "releaseEscrow"
    /\ receipt.status = 0
    /\ EscrowOf(receipt.tradeId).state = "LOCKED"
    /\ receipt.from = EscrowOf(receipt.tradeId).seller

\* ---- C26
\* C26: refundEscrow is mined only for a LOCKED escrow, sent by its buyer
\* at or after expiresAt or by the contract owner at any time; otherwise
\* it reverts and changes nothing.
C26_RefundEscrow ==
    [][TxSent("refundEscrow") =>
          LET r   == receipt'
              esc == EscrowOf(r.tradeId)
          IN  /\ r.status = 1 <=>
                    /\ esc.state = "LOCKED"
                    /\ \/ r.from = esc.buyer /\ clock >= esc.expiresAt
                       \/ r.from = Owner
              /\ r.status = 0 => UNCHANGED <<escrows, balanceOf, allowance>>
              /\ r.status = 1 =>
                    /\ escrows'[r.tradeId] = [esc EXCEPT !.state = "REFUNDED"]
                    /\ balanceOf'[esc.buyer] = balanceOf[esc.buyer] + esc.amount
                    /\ balanceOf'[Contract] = balanceOf[Contract] - esc.amount]_vars

C26_Witness ==
    /\ receipt # Null
    /\ receipt.fn = "refundEscrow"
    /\ receipt.status = 0
    /\ receipt.from = Buyer
    /\ EscrowOf(receipt.tradeId).state = "LOCKED"
    /\ EscrowOf(receipt.tradeId).buyer = Buyer
    /\ clock < EscrowOf(receipt.tradeId).expiresAt

\* ---- C27
\* The elements of list v are exactly the stored trades that satisfy Keep,
\* each of them once.
Exactly(v, Keep(_)) ==
    /\ \A i \in Stored :
          (\E j \in 1..Len(v) : v[j] = trades[i]) <=> Keep(trades[i])
    /\ \A j \in 1..Len(v) : \E i \in Stored : v[j] = trades[i]
    /\ Len(v) = Cardinality({i \in Stored : Keep(trades[i])})

IsActive(t) == t.state \in {"pending", "locked", "delivered"}

\* C27: getActiveTrades returns exactly the stored trades in state pending,
\* locked or delivered, never a released or refunded one, and changes
\* neither the store nor the ledger.
C27_ListActive ==
    [][(reply' # reply /\ reply'.op = "getActiveTrades") =>
          /\ Exactly(reply'.value, IsActive)
          /\ \A j \in 1..Len(reply'.value) :
                reply'.value[j].state \notin {"released", "refunded"}
          /\ trades' = trades
          /\ UNCHANGED ledger]_vars

C27_Witness ==
    /\ reply # Null
    /\ reply.op = "getActiveTrades"
    /\ Len(trades) = 2
    /\ Len(reply.value) = 1
    /\ reply.value[1] \in {trades[1], trades[2]}
    /\ \E i \in Stored : trades[i].state = "refunded"

\* ---- C28
\* C28: getTradesByAgent returns exactly the stored trades in which the
\* agent is the buyer or the seller, whatever their state, and changes
\* neither the store nor the ledger.
C28_ListByParty ==
    [][(reply' # reply /\ reply'.op = "getTradesByAgent") =>
          LET IsParty(t) == \/ t.buyerAgentId = reply'.agentId
                            \/ t.sellerAgentId = reply'.agentId
          IN  /\ Exactly(reply'.value, IsParty)
              /\ trades' = trades
              /\ UNCHANGED ledger]_vars

C28_Witness ==
    /\ reply # Null
    /\ reply.op = "getTradesByAgent"
    /\ reply.agentId = "B"
    /\ Len(trades) = 2
    /\ Len(reply.value) = 1
    /\ reply.value[1] \in {trades[1], trades[2]}
    /\ reply.value[1].state = "released"

\* ---- C29
\* C29: when a wallet is stored, create returns the stored wallet and
\* leaves wallet.json as it is, whichever WalletManager is asked; in every
\* case create returns the wallet that is stored afterwards.
C29_CreateIdempotent ==
    [][(reply' # reply /\ reply'.op = "create") =>
          /\ loadWallet # Null =>
                /\ walletJson' = walletJson
                /\ reply'.value = walletJson
          /\ reply'.value = walletJson'
          /\ reply'.value.address = addressOf(reply'.value.privateKey)]_vars

C29_Witness ==
    /\ reply # Null
    /\ reply.op = "create"
    /\ reply.by = 2
    /\ reply.value = walletJson
    /\ walletJson.createdAt < clock

\* ---- C30
\* C30: remove(id) returns true exactly when a listing with that id was in
\* the registry; then get(id) returns null and the listings with other ids
\* are the same, in the same order; otherwise the registry is unchanged.
C30_Remove ==
    [][\A id \in ListingIds :
          (reply' # reply /\ reply'.op = "remove" /\ reply'.id = id) =>
              /\ reply'.value = (get(id) # Null)
              /\ (get(id))' = Null
              /\ marketplaceJson'
                    = SelectSeq(marketplaceJson, LAMBDA l : l.id # id)
              /\ \A other \in ListingIds \ {id} : (get(other))' = get(other)
              /\ reply'.value = FALSE => marketplaceJson' = marketplaceJson]_vars

C30_Witness ==
    /\ reply # Null
    /\ reply.op = "remove"
    /\ reply.value = TRUE
    /\ Len(marketplaceJson) = 1
    /\ get(reply.id) = Null
    /\ marketplaceJson[1].createdAt < clock

\* ---- C31
\* C31: once the approve(contractAddress, amountWei) of a lockTokens call is
\* confirmed, its createEscrow, sent by the same signer with enough tokens,
\* an unused trade hash, a nonzero seller and a positive amount, is not
\* rejected by the ledger.
C31_ApprovalAuthorizesLock ==
    [][\A p \in Procs :
          LET trade == call[p].trade
              amountWei == parseUnits(trade.amount)
          IN  (/\ At(p, "lock", "submit")
               /\ call'[p] # call[p]
               /\ allowance[call[p].signer][Contract] >= amountWei
               /\ balanceOf[call[p].signer] >= amountWei
               /\ EscrowOf(trade.tradeHash).state = "NONE"
               /\ trade.sellerAddress # Zero
               /\ amountWei > 0)
                  => call'[p].result # "LedgerRejected"]_vars

\* ---- C32
\* The order of the steps of a money-moving call: validation, for lock the
\* approval, submission, confirmation, store write.
Steps(op) ==
    IF op = "lock"
    THEN {<<"idle", "approve">>, <<"approve", "submit">>,
          <<"submit", "wait">>, <<"wait", "commit">>, <<"commit", "idle">>}
    ELSE {<<"idle", "submit">>, <<"submit", "wait">>, <<"wait", "commit">>,
          <<"commit", "idle">>}

\* The ledger state that the transaction of op produces.
Applied(op) ==
    CASE op = "lock" -> "LOCKED"
      [] op = "release" -> "RELEASED"
      [] op = "refund" -> "REFUNDED"

\* C32: a money-moving call reads the record and checks the state first,
\* then (for lock) has its approval confirmed, then submits its
\* transaction, then has it confirmed, and only then writes the store; a
\* call that fails leaves the order at that point; the store is written
\* for lock, release or refund by no step before the confirmation.
C32_StepOrder ==
    [][\A p \in Procs :
          call'[p] # call[p] =>
              LET op == call'[p].op
                  from == call[p].pc
                  to == call'[p].pc
                  snap == call[p].trade
              IN  op \in MoneyOps =>
                    /\ <<from, to>> \in Steps(op) \/ to = "idle"
                    /\ from = "idle" /\ to # "idle" =>
                          /\ call'[p].trade = getTrade(call'[p].id)
                          /\ call'[p].trade.state \in Precondition(op)
                    /\ from = "approve" /\ to = "submit" =>
                          allowance'[call[p].signer][Contract]
                              = parseUnits(snap.amount)
                    /\ to = "commit" =>
                          /\ (EscrowOf(snap.tradeHash))'.state = Applied(op)
                          /\ EscrowOf(snap.tradeHash).state # Applied(op)
                          /\ call'[p].hash = txCount'
                          /\ txCount' = txCount + 1
                    /\ from # "commit" => trades' = trades
                    /\ from = "commit" =>
                          /\ to = "idle"
                          /\ call'[p].result = "ok"
                          /\ (getTrade(call[p].id))'.state
                                = CASE op = "lock" -> "locked"
                                    [] op = "release" -> "released"
                                    [] op = "refund" -> "refunded"]_vars

C32_Witness ==
    \E p \in Procs :
        /\ At(p, "lock", "commit")
        /\ getTrade(call[p].id).state = "pending"
        /\ EscrowOf(call[p].trade.tradeHash).state = "LOCKED"
        /\ allowance[call[p].signer][Contract] = parseUnits(call[p].trade.amount)
        /\ call[p].hash = txCount

\* ---- C33
\* C33: markDelivered on a locked trade makes no ledger call: it returns at
\* once, sets the trade's state to delivered and its updatedAt to the time
\* of the call, and leaves every other field of the trade (its
\* confirmations included), every other record and the ledger as they are.
C33_DeliverIsLocal ==
    [][\A p \in Procs :
          (/\ Begins(p)
           /\ call'[p].op = "deliver"
           /\ getTrade(call'[p].id) # Null
           /\ getTrade(call'[p].id).state = "locked")
              => LET idx == findIndex(trades, call'[p].id)
                     old == trades[idx]
                     new == trades'[idx]
                 IN  /\ call'[p].pc = "idle"
                     /\ call'[p].result = "ok"
                     /\ Len(trades') = Len(trades)
                     /\ new.state = "delivered"
                     /\ new.updatedAt = clock
                     /\ DOMAIN new = DOMAIN old
                     /\ \A k \in DOMAIN old \ {"state", "updatedAt"} :
                           new[k] = old[k]
                     /\ \A i \in Stored \ {idx} : trades'[i] = trades[i]
                     /\ UNCHANGED ledger]_vars

C33_Witness ==
    \E p \in Procs :
        /\ call[p].op = "deliver"
        /\ call[p].result = "ok"
        /\ getTrade(call[p].id).state = "delivered"
        /\ DOMAIN getTrade(call[p].id).txHashes = {"escrowCreate"}
        /\ getTrade(call[p].id).updatedAt > getTrade(call[p].id).createdAt
        /\ EscrowOf(getTrade(call[p].id).tradeHash).state = "LOCKED"

\* ---- C34
\* C34: for every stored trade in state locked, delivered, released or
\* refunded, the escrow the ledger keeps under its tradeHash has the
\* trade's sellerAddress as seller, the trade's amount in smallest units as
\* amount and the trade's buyerAddress as buyer.
C34_EscrowDescribesTrade ==
    \A i \in Stored :
        trades[i].state \in {"locked", "delivered", "released", "refunded"}
            => LET esc == EscrowOf(trades[i].tradeHash)
               IN  /\ esc.seller = trades[i].sellerAddress
                   /\ esc.amount = parseUnits(trades[i].amount)
                   /\ esc.buyer = trades[i].buyerAddress

\* ---- C35
\* C35: no stored trade has both a release and a refund confirmation; a
\* released trade has no refund confirmation and a refunded trade has no
\* release confirmation, also with a release and a refund of the same
\* trade in flight together.
C35_ReleaseXorRefund ==
    \A i \in Stored :
        LET refs == DOMAIN trades[i].txHashes
        IN  /\ ~({"release", "refund"} \subseteq refs)
            /\ trades[i].state = "released" => "refund" \notin refs
            /\ trades[i].state = "refunded" => "release" \notin refs

\* A refund that passed its state check and was submitted while the trade
\* was locked is still in flight when the release has been stored.
C35_Witness ==
    \E p, q \in Procs :
        /\ p # q
        /\ At(q, "refund", "wait")
        /\ call[p].op = "release" /\ call[p].result = "ok"
        /\ call[p].id = call[q].id
        /\ getTrade(call[q].id).state = "released"
        /\ DOMAIN getTrade(call[q].id).txHashes = {"escrowCreate", "release"}

\* ---- C36
LedgerEdges == {<<"NONE", "LOCKED">>, <<"LOCKED", "RELEASED">>,
                <<"LOCKED", "REFUNDED">>}

\* The escrows that leave LOCKED in this step.
Settled == {h \in DOMAIN escrows :
               escrows[h].state = "LOCKED" /\ escrows'[h].state # "LOCKED"}

\* C36: an escrow changes state only along NONE->LOCKED->RELEASED or
\* NONE->LOCKED->REFUNDED; its buyer, seller and amount never change once
\* it exists; tokens leave the contract only in the step that takes one
\* escrow out of LOCKED, to its seller on release and to its buyer on
\* refund, so that each escrow pays out at most once.
C36_EscrowStateMachine ==
    [][/\ DOMAIN escrows \subseteq DOMAIN escrows'
       /\ \A h \in DOMAIN escrows' :
             \/ (EscrowOf(h))' = EscrowOf(h)
             \/ /\ <<EscrowOf(h).state, escrows'[h].state>> \in LedgerEdges
                /\ h \in DOMAIN escrows =>
                      /\ escrows'[h].buyer = escrows[h].buyer
                      /\ escrows'[h].seller = escrows[h].seller
                      /\ escrows'[h].amount = escrows[h].amount
       /\ Cardinality(Settled) <= 1
       /\ balanceOf'[Contract] < balanceOf[Contract] => Settled # {}
       /\ \A h \in Settled :
             LET to == IF escrows'[h].state = "RELEASED"
                       THEN escrows[h].seller ELSE escrows[h].buyer
             IN  /\ balanceOf'[Contract] = balanceOf[Contract] - escrows[h].amount
                 /\ balanceOf'[to] = balanceOf[to] + escrows[h].amount
                 /\ \A a \in Accounts \ {Contract, to} :
                       balanceOf'[a] = balanceOf[a]]_vars

C36_Witness ==
    /\ receipt # Null
    /\ receipt.fn = "refundEscrow"
    /\ receipt.status = 0
    /\ receipt.from = Owner
    /\ EscrowOf(receipt.tradeId).state = "RELEASED"
    /\ \E h \in DOMAIN escrows : escrows[h].state = "LOCKED"

\* ---- C37
RECURSIVE Sum(_, _)
Sum(f, S) ==
    IF S = {} THEN 0
    ELSE LET x == CHOOSE y \in S : TRUE
         IN  f[x] + Sum(f, S \ {x})

\* The amounts of the escrows in state LOCKED, added up.
LockedTotal ==
    Sum([h \in DOMAIN escrows |->
            IF escrows[h].state = "LOCKED" THEN escrows[h].amount ELSE 0],
        DOMAIN escrows)

TotalSupply == Sum(balanceOf, Accounts)

\* C37: the contract's own token balance is at least the sum of the
\* amounts of the LOCKED escrows; a mined releaseEscrow or refundEscrow
\* moves exactly the escrow's amount from the contract to the seller or the
\* buyer; a rejected transaction moves nothing; createEscrow, releaseEscrow
\* and refundEscrow leave the total supply as it is.
C37_EscrowedTokensConserved ==
    /\ [](balanceOf[Contract] >= LockedTotal)
    /\ [][/\ TotalSupply' = TotalSupply
          /\ (TxSent("releaseEscrow") \/ TxSent("refundEscrow")) =>
                LET r == receipt'
                    esc == EscrowOf(r.tradeId)
                    to == IF r.fn = "releaseEscrow" THEN esc.seller ELSE esc.buyer
                IN  IF r.status = 1
                    THEN balanceOf' = [balanceOf EXCEPT
                                          ![Contract] = @ - esc.amount,
                                          ![to] = @ + esc.amount]
                    ELSE balanceOf' = balanceOf
          /\ (TxSent("createEscrow") /\ receipt'.status = 0) =>
                balanceOf' = balanceOf]_vars

C37_Witness ==
    /\ receipt # Null
    /\ receipt.fn = "releaseEscrow"
    /\ receipt.status = 1
    /\ balanceOf[EscrowOf(receipt.tradeId).seller] = EscrowOf(receipt.tradeId).amount
    /\ LockedTotal > 0
    /\ balanceOf[Contract] = LockedTotal

\* ---- C38
\* C38: every stored trade is in state pending, locked, delivered,
\* released or refunded; the declared state disputed is never stored,
\* whatever calls of initiateTrade, lockTokens, markDelivered,
\* releaseTokens and refundTokens interleave.
C38_DisputedUnreachable ==
    \A i \in Stored :
        /\ trades[i].state \in TradeState
        /\ trades[i].state # "disputed"

C38_Witness ==
    \E i \in Stored, p \in Procs :
        /\ trades[i].state = "refunded"
        /\ At(p, "release", "wait")
        /\ call[p].id = trades[i].id
        /\ call[p].trade.state = "delivered"
====
